---- MODULE Spec2Model ----
(***************************************************************************)
(* A model of the mentorship web application of src/app.py: the three      *)
(* tables (user, mentorship_request, message), the login session and one   *)
(* action per route handler and HTTP method.  Text that a handler trims or *)
(* lowercases is a sequence of one-character strings so that the           *)
(* conversion is computed; the role and the password, which are only       *)
(* compared, are plain strings.  A row's id is its position in its table   *)
(* (autoincrement primary key, no handler deletes a row).  resp is what    *)
(* the last request returned to the client.                                *)
(*                                                                         *)
(* Spec and SpecAuth start from the empty database; SpecAuth bounds the    *)
(* request and message tables more tightly.  SpecSeeded starts from a      *)
(* state of Spec in which a mentor and a mentee are registered and nobody  *)
(* is signed in, and gives the tables more room; SpecPair and SpecChat     *)
(* start there too, with room for two requests.  In these specifications   *)
(* a handler runs from its first line to its response in one step.         *)
(* SpecRace runs two handlers in two sessions, worker by worker and step   *)
(* by step (load, check, commit); inflight is what each worker has in hand.*)
(* SpecAdmin adds to SpecChat the delete of a request through the session, *)
(* which no handler performs.                                              *)
(***************************************************************************)
EXTENDS Naturals, Sequences, FiniteSets

VARIABLES users, requests, messages, current_user, now, resp, inflight

vars == <<users, requests, messages, current_user, now, resp, inflight>>

(* ------------------------------ bounds --------------------------------- *)
MaxRequests == 1
MaxMessages == 1
AuthMaxRequests == 0
AuthMaxMessages == 0
SeededMaxRequests == 1
SeededMaxMessages == 2
PairMaxRequests == 2
PairMaxMessages == 0
ChatMaxRequests == 2
ChatMaxMessages == 2
MaxTime == 1

(* ------------------------------ text ----------------------------------- *)
Space == " "

\* str.lower() on the alphabet of the model
lower_char(c) == IF c = "A" THEN "a" ELSE IF c = "B" THEN "b" ELSE c

lower(s) == [i \in DOMAIN s |-> lower_char(s[i])]

RECURSIVE lstrip(_)
lstrip(s) == IF s # <<>> /\ Head(s) = Space THEN lstrip(Tail(s)) ELSE s

RECURSIVE rstrip(_)
rstrip(s) ==
    IF s # <<>> /\ s[Len(s)] = Space THEN rstrip(SubSeq(s, 1, Len(s) - 1)) ELSE s

\* a slip: the text is taken as typed
strip_nothing(s) == s

\* str.strip()
strip(s) == rstrip(lstrip(s))

\* request.form.get(key, default)
form_get(form, key, default) == IF key \in DOMAIN form THEN form[key] ELSE default

\* request.form.get(key) is None
form_missing(form, key) == key \notin DOMAIN form

\* int(text): the digits of the model are "0".."9"; anything else raises ValueError
Digits == <<"0", "1", "2", "3", "4", "5", "6", "7", "8", "9">>

is_digit(c) == \E d \in DOMAIN Digits : Digits[d] = c

digit_value(c) == (CHOOSE d \in DOMAIN Digits : Digits[d] = c) - 1

RECURSIVE digits_value(_)
digits_value(s) ==
    IF s = <<>> THEN 0
    ELSE 10 * digits_value(SubSeq(s, 1, Len(s) - 1)) + digit_value(s[Len(s)])

\* int() accepts surrounding whitespace around a non-empty run of digits
int_ok(s) == strip(s) # <<>> /\ \A i \in DOMAIN strip(s) : is_digit(strip(s)[i])

int_value(s) == digits_value(strip(s))

(* --------------------------- password hash ----------------------------- *)
Salts == {"s1"}

\* pbkdf2_sha256.hash: a salted one-way digest, as a symbolic term
pbkdf2_hash(salt, password) == <<"pbkdf2-sha256", salt, password>>

\* a slip: any password verifies
check_password_any(password_hash, password) == TRUE

\* pbkdf2_sha256.verify: recompute with the stored salt and compare
check_password(password_hash, password) ==
    pbkdf2_hash(password_hash[2], password) = password_hash

(* ------------------------------ queries -------------------------------- *)
\* a slip: the lookup never finds a row
user_by_email_none(email) == 0

\* User.query.filter_by(email=email).first()
user_by_email(email) ==
    IF \E u \in DOMAIN users : users[u].email = email
    THEN CHOOSE u \in DOMAIN users : users[u].email = email
    ELSE 0

\* User.query.filter_by(role=role).all()
users_with_role(role) == {u \in DOMAIN users : users[u].role = role}

\* a slip: the caller's role is not looked at
current_role_any == "mentee"

\* current_user.role
current_role == IF current_user \in DOMAIN users THEN users[current_user].role ELSE ""

\* the filter of the request list: mentor_id == user or mentee_id == user
requests_of(u) ==
    {r \in DOMAIN requests : requests[r].mentor_id = u \/ requests[r].mentee_id = u}

\* mentorship.messages
messages_of(r) == {m \in DOMAIN messages : messages[m].mentorship_id = r}

Perms(S) ==
    {s \in [1..Cardinality(S) -> S] : \A i, j \in DOMAIN s : s[i] = s[j] => i = j}

\* a slip: ascending in place of descending
requests_oldest_first(S) ==
    {s \in Perms(S) :
        \A i, j \in DOMAIN s :
            i < j => requests[s[i]].created_at <= requests[s[j]].created_at}

\* .order_by(MentorshipRequest.created_at.desc()): rows with equal keys in any order
requests_newest_first(S) ==
    {s \in Perms(S) :
        \A i, j \in DOMAIN s :
            i < j => requests[s[i]].created_at >= requests[s[j]].created_at}

\* .order_by(Message.created_at.asc()): rows with equal keys in any order
messages_oldest_first(S) ==
    {s \in Perms(S) :
        \A i, j \in DOMAIN s :
            i < j => messages[s[i]].created_at <= messages[s[j]].created_at}

\* datetime.utcnow as a column default: the values the clock can show at an insert
\* (it does not run backwards, and two inserts can read the same value)
utcnow == {now, now + 1}

(* ----------------------------- responses ------------------------------- *)
NoStats == [total_users |-> 0, mentor_count |-> 0, mentee_count |-> 0,
            active_mentorships |-> 0]

\* what the client gets back: status code, the template rendered or the endpoint
\* redirected to, the flashed notice, and the rows handed to the template
Respond(code, target, flash) ==
    [code |-> code, target |-> target, flash |-> flash,
     requests |-> <<>>, messages |-> <<>>, mentors |-> {}, mentees |-> {},
     stats |-> NoStats]

\* a slip: the decorator left off
login_not_required(u) == TRUE

\* @login_required
login_required(u) == u # 0

\* the unauthorized handler of the login manager: redirect to login_view
Unauthorized ==
    /\ ~login_required(current_user)
    /\ resp' = Respond(302, "login", "Please log in to access this page.")
    /\ UNCHANGED <<users, requests, messages, current_user, now>>

\* MentorshipRequest.query.get_or_404(request_id) aborts with 404
NotFound(request_id) ==
    /\ request_id \notin DOMAIN requests
    /\ resp' = Respond(404, "", "")
    /\ UNCHANGED <<users, requests, messages, current_user, now>>

\* a slip: the participant test of complete_request in place of the mentor test
is_assigned_mentor_or_mentee(mentorship, u) ==
    u \in {mentorship.mentor_id, mentorship.mentee_id}

\* a slip: a request that is no longer pending passes for somebody else's
is_assigned_mentor_if_pending(mentorship, u) ==
    mentorship.mentor_id = u /\ mentorship.status = "pending"

\* mentorship.mentor_id != current_user.id is false
is_assigned_mentor(mentorship, u) == mentorship.mentor_id = u

\* a slip: no participant test at all
is_participant_anyone(mentorship, u) == TRUE

\* a slip: the mentor test of accept_request in place of the participant test
is_participant_mentor_only(mentorship, u) == u = mentorship.mentor_id

\* current_user.id not in {mentorship.mentor_id, mentorship.mentee_id} is false
is_participant(mentorship, u) == u \in {mentorship.mentor_id, mentorship.mentee_id}

(* ------------------------------ workers -------------------------------- *)
\* the server processes that can each be serving a request of their own
Workers == {1, 2}

\* a row that stands for no row
NoRow == [mentor_id |-> 0, mentee_id |-> 0, goal |-> <<>>, status |-> "",
          created_at |-> 0]

\* a worker that serves no request: its session holds nothing
idle_worker ==
    [pc |-> "idle", handler |-> "", user |-> 0, request_id |-> 0, loaded |-> NoRow,
     form |-> <<>>, salt |-> "", resp |-> Respond(0, "", ""), commit_no |-> 0]

\* the request is served from its first line to its response with no other
\* worker in between
Sequential == UNCHANGED inflight

(* ------------------------------- inputs -------------------------------- *)
RegisterForms ==
    {[name |-> <<"n">>, email |-> <<" ", "A">>, role |-> "mentor", password |-> "p"],
     [name |-> <<"n", " ">>, email |-> <<"a">>, role |-> "mentee", password |-> "q"],
     [name |-> <<"n">>, email |-> <<"b">>, role |-> "mentee", password |-> "q"],
     [name |-> <<" ">>, email |-> <<"a">>, role |-> "mentor", password |-> "p"],
     [name |-> <<"n">>, email |-> <<" ">>, role |-> "mentor", password |-> "p"],
     [name |-> <<"n">>, email |-> <<"b">>, role |-> "admin", password |-> "p"],
     [name |-> <<"n">>, email |-> <<"b">>, role |-> "", password |-> "p"],
     [name |-> <<"n">>, email |-> <<"b">>, password |-> "p"],
     [name |-> <<"n">>, email |-> <<"b">>, role |-> "mentee", password |-> ""],
     [email |-> <<"b">>, role |-> "mentee"]}

\* the registration of a third user
LaterRegisterForms ==
    {[name |-> <<"n">>, email |-> <<"c">>, role |-> "mentor", password |-> "p"]}

LoginForms ==
    {[email |-> <<"a">>, password |-> "p"],
     [email |-> <<"A", " ">>, password |-> "p"],
     [email |-> <<"a">>, password |-> "q"],
     [email |-> <<"b">>, password |-> "q"],
     [email |-> <<"b">>, password |-> ""],
     [email |-> <<"c">>, password |-> "p"],
     [email |-> <<"d">>, password |-> "p"],
     [email |-> <<"a">>],
     [password |-> "p"]}

ProfileForms ==
    {<<>>,
     [name |-> <<"m">>, bio |-> <<"x">>, skills |-> <<"s">>, availability |-> <<"v">>]}

MentorIds == {<<"1">>, <<"2">>, <<" ", "3">>, <<"9">>, <<"x">>, <<>>}

MentorshipForms ==
    {[mentor_id |-> i, goal |-> <<" ", "g", " ">>] : i \in MentorIds}
    \cup {[mentor_id |-> <<"1">>, goal |-> <<" ">>],
          [mentor_id |-> <<"x">>, goal |-> <<>>],
          [goal |-> <<"g">>],
          [mentor_id |-> <<"1">>]}

MessageForms == {[body |-> <<" ", "h">>], [body |-> <<" ">>], <<>>}

\* the ids of the stored requests and one id no request has
RequestIds == 1..(Len(requests) + 1)

Init ==
    /\ users = <<>>
    /\ requests = <<>>
    /\ messages = <<>>
    /\ current_user = 0
    /\ now = 0
    /\ resp = Respond(0, "", "")
    /\ inflight = [w \in Workers |-> idle_worker]

(* ------------------------------ handlers ------------------------------- *)
\* GET /
index ==
    /\ resp' = IF current_user # 0
               THEN Respond(302, "dashboard", "")
               ELSE Respond(200, "index.html", "")
    /\ UNCHANGED <<users, requests, messages, current_user, now>>

\* GET /register
register_GET ==
    /\ resp' = Respond(200, "register.html", "")
    /\ UNCHANGED <<users, requests, messages, current_user, now>>

\* POST /register
register_POST(form, salt) ==
    LET name == strip(form_get(form, "name", <<>>))
        email == lower(strip(form_get(form, "email", <<>>)))
        password == form_get(form, "password", "")
        filled == /\ name # <<>>
                  /\ email # <<>>
                  /\ ~form_missing(form, "role")
                  /\ form_get(form, "role", "") # ""
                  /\ password # ""
    IN  IF ~filled
        THEN /\ resp' = Respond(200, "register.html",
                                "Please fill out all required fields.")
             /\ UNCHANGED <<users, requests, messages, current_user, now>>
        ELSE IF form.role \notin {"mentor", "mentee"}
        THEN /\ resp' = Respond(200, "register.html", "Please choose a valid role.")
             /\ UNCHANGED <<users, requests, messages, current_user, now>>
        ELSE IF user_by_email(email) # 0
        THEN /\ resp' = Respond(200, "register.html",
                                "An account with that email already exists.")
             /\ UNCHANGED <<users, requests, messages, current_user, now>>
        ELSE /\ users' = Append(users,
                    [name |-> name, email |-> email, role |-> form.role,
                     bio |-> <<>>, skills |-> <<>>, availability |-> <<>>,
                     password_hash |-> pbkdf2_hash(salt, password)])
             /\ current_user' = Len(users) + 1
             /\ resp' = Respond(302, "dashboard", "Welcome to the mentorship community!")
             /\ UNCHANGED <<requests, messages, now>>

\* GET /login
login_GET ==
    /\ resp' = Respond(200, "login.html", "")
    /\ UNCHANGED <<users, requests, messages, current_user, now>>

\* POST /login
login_POST(form) ==
    LET email == lower(strip(form_get(form, "email", <<>>)))
        password == form_get(form, "password", "")
        user == user_by_email(email)
    IN  IF user # 0 /\ check_password(users[user].password_hash, password)
        THEN /\ current_user' = user
             /\ resp' = Respond(302, "dashboard", "Successfully signed in.")
             /\ UNCHANGED <<users, requests, messages, now>>
        ELSE /\ resp' = Respond(200, "login.html", "Invalid email or password.")
             /\ UNCHANGED <<users, requests, messages, current_user, now>>

\* GET /logout
logout ==
    \/ Unauthorized
    \/ /\ login_required(current_user)
       /\ current_user' = 0
       /\ resp' = Respond(302, "index", "Signed out successfully.")
       /\ UNCHANGED <<users, requests, messages, now>>

\* GET /dashboard
dashboard ==
    \/ Unauthorized
    \/ /\ login_required(current_user)
       /\ \E listing \in requests_newest_first(requests_of(current_user)) :
          resp' = [Respond(200, "dashboard.html", "") EXCEPT
                     !.mentors = users_with_role("mentor"),
                     !.mentees = users_with_role("mentee"),
                     !.requests = listing,
                     !.stats = [total_users |-> Len(users),
                                mentor_count |-> Cardinality(users_with_role("mentor")),
                                mentee_count |-> Cardinality(users_with_role("mentee")),
                                active_mentorships |->
                                    Cardinality({r \in DOMAIN requests :
                                                   requests[r].status = "accepted"})]]
       /\ UNCHANGED <<users, requests, messages, current_user, now>>

\* GET /profile/edit
edit_profile_GET ==
    \/ Unauthorized
    \/ /\ login_required(current_user)
       /\ resp' = Respond(200, "edit_profile.html", "")
       /\ UNCHANGED <<users, requests, messages, current_user, now>>

\* a slip: the update is not restricted to the caller's row
edit_profile_POST_every_row(form) ==
    \/ Unauthorized
    \/ /\ login_required(current_user)
       /\ users' = [u \in DOMAIN users |->
                      [users[u] EXCEPT !.name = form_get(form, "name", @),
                                       !.bio = form_get(form, "bio", @),
                                       !.skills = form_get(form, "skills", @),
                                       !.availability = form_get(form, "availability", @)]]
       /\ resp' = Respond(302, "dashboard", "Profile updated.")
       /\ UNCHANGED <<requests, messages, current_user, now>>

\* POST /profile/edit
edit_profile_POST(form) ==
    \/ Unauthorized
    \/ /\ login_required(current_user)
       /\ users' = [users EXCEPT ![current_user] =
                      [@ EXCEPT !.name = form_get(form, "name", @),
                                !.bio = form_get(form, "bio", @),
                                !.skills = form_get(form, "skills", @),
                                !.availability = form_get(form, "availability", @)]]
       /\ resp' = Respond(302, "dashboard", "Profile updated.")
       /\ UNCHANGED <<requests, messages, current_user, now>>

\* the tail of mentorships(): the mentor list and the caller's requests
mentorships_page(flash) ==
    \E listing \in requests_newest_first(requests_of(current_user)) :
        resp' = [Respond(200, "mentorships.html", flash) EXCEPT
                   !.mentors = users_with_role("mentor"),
                   !.requests = listing]

\* GET /mentorships
mentorships_GET ==
    \/ Unauthorized
    \/ /\ login_required(current_user)
       /\ mentorships_page("")
       /\ UNCHANGED <<users, requests, messages, current_user, now>>

\* POST /mentorships
mentorships_POST(form) ==
    \/ Unauthorized
    \/ /\ login_required(current_user)
       /\ LET goal == strip(form_get(form, "goal", <<>>))
              no_mentor_id == form_missing(form, "mentor_id") \/ form.mentor_id = <<>>
          IN  IF no_mentor_id \/ goal = <<>>
              THEN /\ mentorships_page("Please select a mentor and describe your goal.")
                   /\ UNCHANGED <<users, requests, messages, current_user, now>>
              ELSE IF current_role # "mentee"
              THEN /\ mentorships_page("Only mentees can request mentorships.")
                   /\ UNCHANGED <<users, requests, messages, current_user, now>>
              ELSE IF ~int_ok(form.mentor_id)
              THEN \* int(mentor_id) raises ValueError: an unhandled exception
                   /\ resp' = Respond(500, "", "")
                   /\ UNCHANGED <<users, requests, messages, current_user, now>>
              ELSE LET mentor == int_value(form.mentor_id)
                   IN  IF mentor \in DOMAIN users /\ users[mentor].role = "mentor"
                       THEN /\ \E t \in utcnow :
                                 /\ requests' = Append(requests,
                                       [mentor_id |-> mentor,
                                        mentee_id |-> current_user,
                                        goal |-> goal, status |-> "pending",
                                        created_at |-> t])
                                 /\ now' = t
                            /\ resp' = Respond(302, "mentorships",
                                               "Mentorship request created.")
                            /\ UNCHANGED <<users, messages, current_user>>
                       ELSE /\ mentorships_page("Selected mentor is not available.")
                            /\ UNCHANGED <<users, requests, messages, current_user, now>>

\* POST /mentorships/<request_id>/accept
accept_request(request_id) ==
    \/ Unauthorized
    \/ /\ login_required(current_user)
       /\ \/ NotFound(request_id)
          \/ /\ request_id \in DOMAIN requests
             /\ IF ~is_assigned_mentor(requests[request_id], current_user)
                THEN /\ resp' = Respond(302, "mentorships",
                                    "Only the assigned mentor can accept this request.")
                     /\ UNCHANGED <<users, requests, messages, current_user, now>>
                ELSE /\ requests' = [requests EXCEPT ![request_id].status = "accepted"]
                     /\ resp' = Respond(302, "mentorships",
                                    "Mentorship accepted. Start collaborating!")
                     /\ UNCHANGED <<users, messages, current_user, now>>

\* POST /mentorships/<request_id>/decline
decline_request(request_id) ==
    \/ Unauthorized
    \/ /\ login_required(current_user)
       /\ \/ NotFound(request_id)
          \/ /\ request_id \in DOMAIN requests
             /\ IF ~is_assigned_mentor(requests[request_id], current_user)
                THEN /\ resp' = Respond(302, "mentorships",
                                    "Only the assigned mentor can decline this request.")
                     /\ UNCHANGED <<users, requests, messages, current_user, now>>
                ELSE /\ requests' = [requests EXCEPT ![request_id].status = "declined"]
                     /\ resp' = Respond(302, "mentorships", "Request declined.")
                     /\ UNCHANGED <<users, messages, current_user, now>>

\* a slip: the update is not restricted to the request of the URL
complete_request_every(request_id) ==
    \/ Unauthorized
    \/ /\ login_required(current_user)
       /\ \/ NotFound(request_id)
          \/ /\ request_id \in DOMAIN requests
             /\ IF ~is_participant(requests[request_id], current_user)
                THEN /\ resp' = Respond(302, "mentorships",
                                    "You cannot complete an unrelated request.")
                     /\ UNCHANGED <<users, requests, messages, current_user, now>>
                ELSE /\ requests' = [q \in DOMAIN requests |->
                                       IF is_participant(requests[q], current_user)
                                       THEN [requests[q] EXCEPT !.status = "completed"]
                                       ELSE requests[q]]
                     /\ resp' = Respond(302, "mentorships",
                                    "Mentorship marked as completed.")
                     /\ UNCHANGED <<users, messages, current_user, now>>

\* POST /mentorships/<request_id>/complete
complete_request(request_id) ==
    \/ Unauthorized
    \/ /\ login_required(current_user)
       /\ \/ NotFound(request_id)
          \/ /\ request_id \in DOMAIN requests
             /\ IF ~is_participant(requests[request_id], current_user)
                THEN /\ resp' = Respond(302, "mentorships",
                                    "You cannot complete an unrelated request.")
                     /\ UNCHANGED <<users, requests, messages, current_user, now>>
                ELSE /\ requests' = [requests EXCEPT ![request_id].status = "completed"]
                     /\ resp' = Respond(302, "mentorships",
                                    "Mentorship marked as completed.")
                     /\ UNCHANGED <<users, messages, current_user, now>>

\* the tail of mentorship_messages(): the messages of the request, oldest first
messages_page(request_id, flash) ==
    \E listing \in messages_oldest_first(messages_of(request_id)) :
        resp' = [Respond(200, "messages.html", flash) EXCEPT !.messages = listing]

\* GET /mentorships/<request_id>/messages
mentorship_messages_GET(request_id) ==
    \/ Unauthorized
    \/ /\ login_required(current_user)
       /\ \/ NotFound(request_id)
          \/ /\ request_id \in DOMAIN requests
             /\ IF ~is_participant(requests[request_id], current_user)
                THEN resp' = Respond(302, "mentorships",
                                     "You are not part of this mentorship.")
                ELSE messages_page(request_id, "")
             /\ UNCHANGED <<users, requests, messages, current_user, now>>

\* a slip: the post writes over the last stored message instead of adding a row
mentorship_messages_POST_overwrite(request_id, form) ==
    \/ Unauthorized
    \/ /\ login_required(current_user)
       /\ \/ NotFound(request_id)
          \/ /\ request_id \in DOMAIN requests
             /\ LET body == strip(form_get(form, "body", <<>>))
                    row(t) == [mentorship_id |-> request_id, sender_id |-> current_user,
                               body |-> body, created_at |-> t]
                IN  IF ~is_participant(requests[request_id], current_user)
                    THEN /\ resp' = Respond(302, "mentorships",
                                            "You are not part of this mentorship.")
                         /\ UNCHANGED <<users, requests, messages, current_user, now>>
                    ELSE IF body # <<>>
                    THEN /\ \E t \in utcnow :
                              /\ messages' = IF messages = <<>>
                                             THEN <<row(t)>>
                                             ELSE [messages EXCEPT ![Len(messages)] = row(t)]
                              /\ now' = t
                         /\ resp' = Respond(302, "mentorship_messages", "Message sent.")
                         /\ UNCHANGED <<users, requests, current_user>>
                    ELSE /\ messages_page(request_id, "Message cannot be empty.")
                         /\ UNCHANGED <<users, requests, messages, current_user, now>>

\* POST /mentorships/<request_id>/messages
mentorship_messages_POST(request_id, form) ==
    \/ Unauthorized
    \/ /\ login_required(current_user)
       /\ \/ NotFound(request_id)
          \/ /\ request_id \in DOMAIN requests
             /\ LET body == strip(form_get(form, "body", <<>>))
                IN  IF ~is_participant(requests[request_id], current_user)
                    THEN /\ resp' = Respond(302, "mentorships",
                                            "You are not part of this mentorship.")
                         /\ UNCHANGED <<users, requests, messages, current_user, now>>
                    ELSE IF body # <<>>
                    THEN /\ \E t \in utcnow :
                              /\ messages' = Append(messages,
                                     [mentorship_id |-> request_id,
                                      sender_id |-> current_user,
                                      body |-> body, created_at |-> t])
                              /\ now' = t
                         /\ resp' = Respond(302, "mentorship_messages", "Message sent.")
                         /\ UNCHANGED <<users, requests, current_user>>
                    ELSE /\ messages_page(request_id, "Message cannot be empty.")
                         /\ UNCHANGED <<users, requests, messages, current_user, now>>

\* the tables and the clock stay within the bounds of the model
Bounded(maxRequests, maxMessages) ==
    /\ Len(requests') <= maxRequests
    /\ Len(messages') <= maxMessages
    /\ now' <= MaxTime

\* one request to any handler
Next ==
    \/ index /\ Sequential
    \/ register_GET /\ Sequential
    \/ \E form \in RegisterForms, salt \in Salts : register_POST(form, salt) /\ Sequential
    \/ login_GET /\ Sequential
    \/ \E form \in LoginForms : login_POST(form) /\ Sequential
    \/ logout /\ Sequential
    \/ dashboard /\ Sequential
    \/ edit_profile_GET /\ Sequential
    \/ \E form \in ProfileForms : edit_profile_POST(form) /\ Sequential
    \/ mentorships_GET /\ Sequential
    \/ \E form \in MentorshipForms :
          mentorships_POST(form) /\ Bounded(MaxRequests, MaxMessages) /\ Sequential
    \/ \E request_id \in RequestIds : accept_request(request_id) /\ Sequential
    \/ \E request_id \in RequestIds : decline_request(request_id) /\ Sequential
    \/ \E request_id \in RequestIds : complete_request(request_id) /\ Sequential
    \/ \E request_id \in RequestIds : mentorship_messages_GET(request_id) /\ Sequential
    \/ \E request_id \in RequestIds, form \in MessageForms :
          mentorship_messages_POST(request_id, form)
          /\ Bounded(MaxRequests, MaxMessages) /\ Sequential

Spec == Init /\ [][Next]_vars

\* one request to any handler, the request and message tables kept as small as
\* registration, login and profile edits need them
NextAuth ==
    \/ index /\ Sequential
    \/ register_GET /\ Sequential
    \/ \E form \in RegisterForms, salt \in Salts : register_POST(form, salt) /\ Sequential
    \/ login_GET /\ Sequential
    \/ \E form \in LoginForms : login_POST(form) /\ Sequential
    \/ logout /\ Sequential
    \/ dashboard /\ Sequential
    \/ edit_profile_GET /\ Sequential
    \/ \E form \in ProfileForms : edit_profile_POST(form) /\ Sequential
    \/ mentorships_GET /\ Sequential
    \/ \E form \in MentorshipForms :
          mentorships_POST(form) /\ Bounded(AuthMaxRequests, AuthMaxMessages) /\ Sequential
    \/ \E request_id \in RequestIds : accept_request(request_id) /\ Sequential
    \/ \E request_id \in RequestIds : decline_request(request_id) /\ Sequential
    \/ \E request_id \in RequestIds : complete_request(request_id) /\ Sequential
    \/ \E request_id \in RequestIds : mentorship_messages_GET(request_id) /\ Sequential
    \/ \E request_id \in RequestIds, form \in MessageForms :
          mentorship_messages_POST(request_id, form)
          /\ Bounded(AuthMaxRequests, AuthMaxMessages) /\ Sequential

SpecAuth == Init /\ [][NextAuth]_vars

\* the store after the registrations of a mentor and a mentee and a logout,
\* a state of Spec (SeedState is reachable there)
SeedUsers ==
    <<[name |-> <<"n">>, email |-> <<"a">>, role |-> "mentor",
       bio |-> <<>>, skills |-> <<>>, availability |-> <<>>,
       password_hash |-> pbkdf2_hash("s1", "p")],
      [name |-> <<"n">>, email |-> <<"b">>, role |-> "mentee",
       bio |-> <<>>, skills |-> <<>>, availability |-> <<>>,
       password_hash |-> pbkdf2_hash("s1", "q")]>>

InitSeeded ==
    /\ users = SeedUsers
    /\ requests = <<>>
    /\ messages = <<>>
    /\ current_user = 0
    /\ now = 0
    /\ resp = Respond(302, "index", "Signed out successfully.")
    /\ inflight = [w \in Workers |-> idle_worker]

SeedState == InitSeeded

\* one request to any handler, starting with the two users stored; a third one
\* can register
NextSeeded ==
    \/ index /\ Sequential
    \/ register_GET /\ Sequential
    \/ \E form \in RegisterForms \cup LaterRegisterForms, salt \in Salts :
          register_POST(form, salt) /\ Sequential
    \/ login_GET /\ Sequential
    \/ \E form \in LoginForms : login_POST(form) /\ Sequential
    \/ logout /\ Sequential
    \/ dashboard /\ Sequential
    \/ edit_profile_GET /\ Sequential
    \/ \E form \in {<<>>} : edit_profile_POST(form) /\ Sequential
    \/ mentorships_GET /\ Sequential
    \/ \E form \in MentorshipForms :
          mentorships_POST(form) /\ Bounded(SeededMaxRequests, SeededMaxMessages) /\ Sequential
    \/ \E request_id \in RequestIds : accept_request(request_id) /\ Sequential
    \/ \E request_id \in RequestIds : decline_request(request_id) /\ Sequential
    \/ \E request_id \in RequestIds : complete_request(request_id) /\ Sequential
    \/ \E request_id \in RequestIds : mentorship_messages_GET(request_id) /\ Sequential
    \/ \E request_id \in RequestIds, form \in MessageForms :
          mentorship_messages_POST(request_id, form)
          /\ Bounded(SeededMaxRequests, SeededMaxMessages) /\ Sequential

SpecSeeded == InitSeeded /\ [][NextSeeded]_vars

\* the forms of the runs with two requests: the registration of a second
\* mentor, a sign-in per user and a failed one, requests to either mentor, to a
\* mentee and with a blank goal
PairRegisterForms ==
    LaterRegisterForms
    \cup {[name |-> <<"n">>, email |-> <<"A">>, role |-> "mentee", password |-> "q"]}

PairLoginForms ==
    {[email |-> <<"a">>, password |-> "p"],
     [email |-> <<"b">>, password |-> "q"],
     [email |-> <<"c">>, password |-> "p"],
     [email |-> <<"a">>, password |-> "q"]}

PairMentorshipForms ==
    {[mentor_id |-> i, goal |-> <<"g">>] : i \in {<<"1">>, <<"2">>, <<" ", "3">>}}
    \cup {[mentor_id |-> <<"1">>, goal |-> <<" ">>]}

\* one request to any handler, starting with the two users stored, with room
\* for two requests and a third user
NextPair ==
    \/ index /\ Sequential
    \/ register_GET /\ Sequential
    \/ \E form \in PairRegisterForms, salt \in Salts : register_POST(form, salt) /\ Sequential
    \/ login_GET /\ Sequential
    \/ \E form \in PairLoginForms : login_POST(form) /\ Sequential
    \/ logout /\ Sequential
    \/ dashboard /\ Sequential
    \/ edit_profile_GET /\ Sequential
    \/ \E form \in {<<>>} : edit_profile_POST(form) /\ Sequential
    \/ mentorships_GET /\ Sequential
    \/ \E form \in PairMentorshipForms :
          mentorships_POST(form) /\ Bounded(PairMaxRequests, PairMaxMessages) /\ Sequential
    \/ \E request_id \in RequestIds : accept_request(request_id) /\ Sequential
    \/ \E request_id \in RequestIds : decline_request(request_id) /\ Sequential
    \/ \E request_id \in RequestIds : complete_request(request_id) /\ Sequential
    \/ \E request_id \in RequestIds : mentorship_messages_GET(request_id) /\ Sequential
    \/ \E request_id \in RequestIds, form \in MessageForms :
          mentorship_messages_POST(request_id, form)
          /\ Bounded(PairMaxRequests, PairMaxMessages) /\ Sequential

SpecPair == InitSeeded /\ [][NextPair]_vars

\* the registration form of the runs with two requests and two messages: an
\* email that is already stored
ChatRegisterForms ==
    {[name |-> <<"n">>, email |-> <<"A">>, role |-> "mentee", password |-> "q"]}

\* one request to any handler, starting with the two users stored, with room
\* for two requests and two messages
NextChat ==
    \/ index /\ Sequential
    \/ register_GET /\ Sequential
    \/ \E form \in ChatRegisterForms, salt \in Salts : register_POST(form, salt) /\ Sequential
    \/ login_GET /\ Sequential
    \/ \E form \in PairLoginForms : login_POST(form) /\ Sequential
    \/ logout /\ Sequential
    \/ dashboard /\ Sequential
    \/ edit_profile_GET /\ Sequential
    \/ \E form \in {<<>>} : edit_profile_POST(form) /\ Sequential
    \/ mentorships_GET /\ Sequential
    \/ \E form \in PairMentorshipForms :
          mentorships_POST(form) /\ Bounded(ChatMaxRequests, ChatMaxMessages) /\ Sequential
    \/ \E request_id \in RequestIds : accept_request(request_id) /\ Sequential
    \/ \E request_id \in RequestIds : decline_request(request_id) /\ Sequential
    \/ \E request_id \in RequestIds : complete_request(request_id) /\ Sequential
    \/ \E request_id \in RequestIds : mentorship_messages_GET(request_id) /\ Sequential
    \/ \E request_id \in RequestIds, form \in MessageForms :
          mentorship_messages_POST(request_id, form)
          /\ Bounded(ChatMaxRequests, ChatMaxMessages) /\ Sequential

SpecChat == InitSeeded /\ [][NextChat]_vars

(* ------------------------ administrative delete ------------------------ *)
\* a slip: the relationship declared without a cascade
cascade_none(mentorship) == messages

\* relationship("Message", cascade="all, delete-orphan"): the message table
\* after the session deletes a request, the rows of that request removed
cascade_delete(mentorship) ==
    SelectSeq(messages, LAMBDA message : message.mentorship_id # mentorship)

\* the administrative path: the request is deleted through the session and the
\* delete is committed.  No handler does this.  The request deleted is the one
\* stored last, so that the ids of the remaining requests stay their positions.
delete_request(request_id) ==
    /\ request_id \in DOMAIN requests
    /\ request_id = Len(requests)
    /\ messages' = cascade_delete(request_id)
    /\ requests' = SubSeq(requests, 1, Len(requests) - 1)
    /\ UNCHANGED <<users, current_user, now, resp, inflight>>

\* one request to any handler, or an administrative delete
NextAdmin ==
    \/ NextChat
    \/ \E request_id \in RequestIds : delete_request(request_id)

SpecAdmin == InitSeeded /\ [][NextAdmin]_vars

(* -------------------------- concurrent handlers ----------------------- *)
\* accept_request, decline_request and complete_request differ in the test
\* of the caller, the status they set and the notices they flash
StatusHandlers == {"accept", "decline", "complete"}

status_of(handler) ==
    CASE handler = "accept" -> "accepted"
      [] handler = "decline" -> "declined"
      [] handler = "complete" -> "completed"

may_set_status(handler, mentorship, u) ==
    IF handler = "complete"
    THEN is_participant(mentorship, u)
    ELSE is_assigned_mentor(mentorship, u)

denied_notice(handler) ==
    CASE handler = "accept" -> "Only the assigned mentor can accept this request."
      [] handler = "decline" -> "Only the assigned mentor can decline this request."
      [] handler = "complete" -> "You cannot complete an unrelated request."

success_notice(handler) ==
    CASE handler = "accept" -> "Mentorship accepted. Start collaborating!"
      [] handler = "decline" -> "Request declined."
      [] handler = "complete" -> "Mentorship marked as completed."

\* the worker has sent its response
finish(w, response) ==
    inflight' = [inflight EXCEPT ![w].pc = "done", ![w].resp = response]

\* the commits made so far
commits == Cardinality({w \in Workers : inflight[w].commit_no > 0})

\* a slip: every commit writes the status column
flush_status_always(request_id, loaded, status) ==
    [requests EXCEPT ![request_id].status = status]

\* the flush of db.session.commit() after mentorship.status = status: the unit
\* of work compares the attribute with the value it loaded and sends
\* UPDATE mentorship_request SET status = ... WHERE id = ... only if it differs
flush_status(request_id, loaded, status) ==
    IF status = loaded.status
    THEN requests
    ELSE [requests EXCEPT ![request_id].status = status]

\* the first lines of a status handler called with the session of user u:
\* login_required, then get_or_404 loads the row into the worker's session
status_load(w, u, handler, request_id) ==
    /\ inflight[w].pc = "idle"
    /\ IF ~login_required(u)
       THEN finish(w, Respond(302, "login", "Please log in to access this page."))
       ELSE IF request_id \notin DOMAIN requests
       THEN finish(w, Respond(404, "", ""))
       ELSE inflight' = [inflight EXCEPT ![w] =
                [@ EXCEPT !.pc = "loaded", !.handler = handler, !.user = u,
                          !.request_id = request_id,
                          !.loaded = requests[request_id]]]
    /\ UNCHANGED <<users, requests, messages, current_user, now, resp>>

\* the test of the caller against the loaded row and, when it passes, the
\* assignment mentorship.status = ... in the worker's session
status_check(w) ==
    /\ inflight[w].pc = "loaded"
    /\ IF ~may_set_status(inflight[w].handler, inflight[w].loaded, inflight[w].user)
       THEN finish(w, Respond(302, "mentorships", denied_notice(inflight[w].handler)))
       ELSE inflight' = [inflight EXCEPT ![w].pc = "dirty"]
    /\ UNCHANGED <<users, requests, messages, current_user, now, resp>>

\* db.session.commit(), the notice and the redirect
status_commit(w) ==
    /\ inflight[w].pc = "dirty"
    /\ requests' = flush_status(inflight[w].request_id, inflight[w].loaded,
                                status_of(inflight[w].handler))
    /\ inflight' = [inflight EXCEPT ![w] =
           [@ EXCEPT !.pc = "done", !.commit_no = commits + 1,
                     !.resp = Respond(302, "mentorships",
                                      success_notice(inflight[w].handler))]]
    /\ UNCHANGED <<users, messages, current_user, now, resp>>

\* a slip: the email column declared without unique=True
email_not_unique(email) == FALSE

\* the unique constraint on user.email: the insert of a row whose email is
\* stored already is refused by the database
email_unique_violation(email) == \E u \in DOMAIN users : users[u].email = email

\* register up to the lookup of the email: the checks of the form and
\* User.query.filter_by(email=email).first()
register_check(w, form, salt) ==
    LET name == strip(form_get(form, "name", <<>>))
        email == lower(strip(form_get(form, "email", <<>>)))
        password == form_get(form, "password", "")
        filled == /\ name # <<>>
                  /\ email # <<>>
                  /\ ~form_missing(form, "role")
                  /\ form_get(form, "role", "") # ""
                  /\ password # ""
    IN  /\ inflight[w].pc = "idle"
        /\ IF ~filled
           THEN finish(w, Respond(200, "register.html",
                                  "Please fill out all required fields."))
           ELSE IF form.role \notin {"mentor", "mentee"}
           THEN finish(w, Respond(200, "register.html", "Please choose a valid role."))
           ELSE IF user_by_email(email) # 0
           THEN finish(w, Respond(200, "register.html",
                                  "An account with that email already exists."))
           ELSE inflight' = [inflight EXCEPT ![w] =
                    [@ EXCEPT !.pc = "insert", !.handler = "register",
                              !.form = form, !.salt = salt]]
        /\ UNCHANGED <<users, requests, messages, current_user, now, resp>>

\* register from db.session.add(user) on: the insert is committed, or the
\* database refuses it and the IntegrityError leaves the handler (HTTP 500)
register_commit(w) ==
    LET form == inflight[w].form
        email == lower(strip(form_get(form, "email", <<>>)))
    IN  /\ inflight[w].pc = "insert"
        /\ IF email_unique_violation(email)
           THEN /\ finish(w, Respond(500, "", ""))
                /\ UNCHANGED users
           ELSE /\ users' = Append(users,
                       [name |-> strip(form_get(form, "name", <<>>)),
                        email |-> email, role |-> form.role,
                        bio |-> <<>>, skills |-> <<>>, availability |-> <<>>,
                        password_hash |->
                            pbkdf2_hash(inflight[w].salt, form_get(form, "password", ""))])
                /\ inflight' = [inflight EXCEPT ![w] =
                       [@ EXCEPT !.pc = "done", !.user = Len(users) + 1,
                                 !.commit_no = commits + 1,
                                 !.resp = Respond(302, "dashboard",
                                            "Welcome to the mentorship community!")]]
        /\ UNCHANGED <<requests, messages, current_user, now, resp>>

\* registrations of one new email written in two ways, of another new email
\* and of a stored one
RaceRegisterForms ==
    {[name |-> <<"n">>, email |-> <<"c">>, role |-> "mentor", password |-> "p"],
     [name |-> <<"n">>, email |-> <<" ", "c">>, role |-> "mentee", password |-> "q"],
     [name |-> <<"n">>, email |-> <<"d">>, role |-> "mentee", password |-> "q"],
     [name |-> <<"n">>, email |-> <<"B">>, role |-> "mentee", password |-> "q"],
     [name |-> <<"n">>, email |-> <<"d">>, role |-> "admin", password |-> "q"]}

RequestStatuses == {"pending", "accepted", "declined", "completed"}

\* the two users and one request of the mentee to the mentor, in any status
\* (states of SpecSeeded after a logout)
InitRace ==
    /\ users = SeedUsers
    /\ \E status \in RequestStatuses :
          requests = <<[mentor_id |-> 1, mentee_id |-> 2, goal |-> <<"g">>,
                        status |-> status, created_at |-> 0]>>
    /\ messages = <<>>
    /\ current_user = 0
    /\ now = 0
    /\ resp = Respond(302, "index", "Signed out successfully.")
    /\ inflight = [w \in Workers |-> idle_worker]

RaceSeedState ==
    /\ InitRace
    /\ requests[1].status = "declined"

\* two workers, each serving one call of a status handler or of register, a
\* step of one or the other at a time
NextRace ==
    \/ \E w \in Workers, u \in 0..Len(users), handler \in StatusHandlers,
          request_id \in RequestIds : status_load(w, u, handler, request_id)
    \/ \E w \in Workers : status_check(w)
    \/ \E w \in Workers : status_commit(w)
    \/ \E w \in Workers, form \in RaceRegisterForms, salt \in Salts :
          register_check(w, form, salt)
    \/ \E w \in Workers : register_commit(w)

SpecRace == InitRace /\ [][NextRace]_vars

(* ------------------------------- claims -------------------------------- *)
\* C1: accept and decline by an authenticated caller who is not the request's
\* mentor (the mentee, or an unrelated user) never succeed: the authorization
\* error is flashed and the tables and the session are unchanged.
C1_OnlyMentorAcceptsOrDeclines ==
    [][\A r \in DOMAIN requests :
         (current_user # 0 /\ current_user # requests[r].mentor_id) =>
            /\ accept_request(r) =>
                 /\ resp'.flash = "Only the assigned mentor can accept this request."
                 /\ UNCHANGED <<users, requests, messages, current_user>>
            /\ decline_request(r) =>
                 /\ resp'.flash = "Only the assigned mentor can decline this request."
                 /\ UNCHANGED <<users, requests, messages, current_user>>]_vars

\* an unrelated user has just been refused the accept of a pending request
C1_Witness ==
    /\ Len(requests) = 1
    /\ current_user \notin {0, requests[1].mentor_id, requests[1].mentee_id}
    /\ requests[1].status = "pending"
    /\ resp.flash = "Only the assigned mentor can accept this request."

\* C2: the status of a request changes only along pending->accepted,
\* pending->declined and accepted->completed, so a declined or completed
\* request never changes status again.
C2_StatusFollowsStateMachine ==
    [][\A r \in DOMAIN requests :
         requests'[r].status # requests[r].status =>
            <<requests[r].status, requests'[r].status>> \in
                {<<"pending", "accepted">>, <<"pending", "declined">>,
                 <<"accepted", "completed">>}]_vars

\* the mentor_id of a form names an existing user whose role is mentor
ResolvesToMentor(form) ==
    /\ "mentor_id" \in DOMAIN form
    /\ \E u \in DOMAIN users :
         /\ users[u].role = "mentor"
         /\ int_ok(form.mentor_id)
         /\ int_value(form.mentor_id) = u

CreateIsValid(form) ==
    /\ users[current_user].role = "mentee"
    /\ "goal" \in DOMAIN form
    /\ strip(form.goal) # <<>>
    /\ ResolvesToMentor(form)

CreateErrors ==
    {"Please select a mentor and describe your goal.",
     "Only mentees can request mentorships.",
     "Selected mentor is not available."}

\* C3: create inserts a request exactly when the caller is a mentee, the goal is
\* not blank and mentor_id resolves to a mentor; the row is pending, from the
\* caller to that mentor.  Every other input fails with an authorization or
\* validation error and inserts no row.
C3_CreateInsertsExactlyWhenValid ==
    [][\A form \in MentorshipForms :
         (current_user # 0 /\ mentorships_POST(form)) =>
            IF CreateIsValid(form)
            THEN /\ Len(requests') = Len(requests) + 1
                 /\ SubSeq(requests', 1, Len(requests)) = requests
                 /\ requests'[Len(requests')].status = "pending"
                 /\ requests'[Len(requests')].mentee_id = current_user
                 /\ requests'[Len(requests')].mentor_id = int_value(form.mentor_id)
            ELSE /\ requests' = requests
                 /\ resp'.flash \in CreateErrors]_vars

\* C4: the sender of every stored message is the mentor or the mentee of the
\* message's request, and a post by an authenticated caller who is neither fails
\* with the authorization error and adds no message.
C4_SendersAreParticipants ==
    /\ [](\A m \in DOMAIN messages :
            /\ messages[m].mentorship_id \in DOMAIN requests
            /\ messages[m].sender_id \in
                  {requests[messages[m].mentorship_id].mentor_id,
                   requests[messages[m].mentorship_id].mentee_id})
    /\ [][\A r \in DOMAIN requests, form \in MessageForms :
            (/\ current_user # 0
             /\ current_user \notin {requests[r].mentor_id, requests[r].mentee_id}
             /\ mentorship_messages_POST(r, form)) =>
                /\ resp'.flash = "You are not part of this mentorship."
                /\ messages' = messages]_vars

\* a user outside a request that has a message has just been refused
C4_Witness ==
    /\ Len(requests) = 1
    /\ Len(messages) >= 1
    /\ current_user \notin {0, requests[1].mentor_id, requests[1].mentee_id}
    /\ resp.flash = "You are not part of this mentorship."

\* C5: a message is appended only to a request whose status is accepted at the
\* time of the post, never to a pending, declined or completed one.
C5_PostOnlyWhenAccepted ==
    [][messages' # messages =>
         requests[messages'[Len(messages')].mentorship_id].status = "accepted"]_vars

\* the ids of S in the order the rows were inserted
InsertionOrder(S) == CHOOSE s \in Perms(S) : \A i, j \in DOMAIN s : i < j => s[i] < s[j]

\* C6: the message list of a request holds all its messages in insertion order,
\* also when two posts received the same creation timestamp.
C6_ListInInsertionOrder ==
    [][\A r \in DOMAIN requests :
         (/\ current_user \in {requests[r].mentor_id, requests[r].mentee_id}
          /\ mentorship_messages_GET(r)) =>
             resp'.messages = InsertionOrder(messages_of(r))]_vars

\* the email of a registration form, trimmed and lowercased, is a stored email
EmailTaken(form) ==
    /\ "email" \in DOMAIN form
    /\ \E u \in DOMAIN users : users[u].email = lower(strip(form.email))

\* the form passes the required-field and role checks of register
RegistrationWellFormed(form) ==
    /\ {"name", "email", "role", "password"} \subseteq DOMAIN form
    /\ strip(form.name) # <<>>
    /\ form.password # ""
    /\ form.role \in {"mentor", "mentee"}

\* C7 as stated: a registration whose normalized email is already stored fails
\* with the conflict error, adds no user, leaves the rows and the principal as
\* they were.
C7_DuplicateEmailIsConflict ==
    [][\A form \in RegisterForms \cup LaterRegisterForms, salt \in Salts :
         (EmailTaken(form) /\ register_POST(form, salt)) =>
            /\ resp'.flash = "An account with that email already exists."
            /\ users' = users
            /\ current_user' = current_user]_vars

\* C7 amended: a registration whose normalized email is already stored adds no
\* user and leaves the rows and the principal as they were; it fails with the
\* conflict error when its required fields are filled and its role is valid
\* (a blank field or an invalid role is reported first).
C7_DuplicateEmailAddsNoUser ==
    [][\A form \in RegisterForms \cup LaterRegisterForms, salt \in Salts :
         (EmailTaken(form) /\ register_POST(form, salt)) =>
            /\ users' = users
            /\ current_user' = current_user
            /\ RegistrationWellFormed(form) =>
                  resp'.flash = "An account with that email already exists."]_vars

\* a signed-in user has just been refused a registration with a stored email
C7_Witness ==
    /\ resp.flash = "An account with that email already exists."
    /\ current_user # 0
    /\ Len(users) >= 2

\* the password a stored hash was computed from
RegisteredPassword(u) == users[u].password_hash[3]

\* C8: a user registered with (email, password) can sign in with them in every
\* later state and becomes the principal; a wrong password or an unregistered
\* email fails with the authentication error and leaves the principal as it was.
C8_LoginIffRegisteredCredentials ==
    [][/\ \A form \in RegisterForms \cup LaterRegisterForms, salt \in Salts :
            (register_POST(form, salt) /\ users' # users) =>
               /\ Len(users') = Len(users) + 1
               /\ users'[Len(users')].email = lower(strip(form.email))
               /\ users'[Len(users')].password_hash[3] = form.password
               /\ current_user' = Len(users')
       /\ \A u \in DOMAIN users :
            /\ u \in DOMAIN users'
            /\ users'[u].email = users[u].email
            /\ users'[u].password_hash = users[u].password_hash
       /\ \A form \in LoginForms :
            login_POST(form) =>
               LET email == lower(strip(form_get(form, "email", <<>>)))
                   password == form_get(form, "password", "")
               IN  IF \E u \in DOMAIN users :
                          users[u].email = email /\ RegisteredPassword(u) = password
                   THEN /\ current_user' \in DOMAIN users
                        /\ users[current_user'].email = email
                        /\ resp'.flash = "Successfully signed in."
                   ELSE /\ current_user' = current_user
                        /\ resp'.flash = "Invalid email or password."]_vars

\* a registered user has signed in again after a profile edit
C8_Witness ==
    /\ resp.flash = "Successfully signed in."
    /\ current_user # 0
    /\ users[current_user].bio # <<>>

\* a request to one of the handlers behind login_required
ProtectedRequest ==
    \/ dashboard
    \/ edit_profile_GET
    \/ \E form \in ProfileForms : edit_profile_POST(form)
    \/ mentorships_GET
    \/ \E form \in MentorshipForms : mentorships_POST(form)
    \/ \E request_id \in RequestIds :
          \/ accept_request(request_id)
          \/ decline_request(request_id)
          \/ complete_request(request_id)
          \/ mentorship_messages_GET(request_id)
          \/ \E form \in MessageForms : mentorship_messages_POST(request_id, form)

\* C9: with no principal in the session every protected handler is denied
\* (redirect to the login page) and changes no table; the session gets a
\* principal again only by a successful login or registration.
C9_AnonymousIsDenied ==
    [][current_user = 0 =>
         /\ ProtectedRequest =>
               /\ resp' = Respond(302, "login", "Please log in to access this page.")
               /\ UNCHANGED <<users, requests, messages, current_user>>
         /\ current_user' # 0 =>
               resp'.flash \in {"Successfully signed in.",
                                "Welcome to the mentorship community!"}]_vars

\* after a logout, with a request and a message stored, a handler was denied
C9_Witness ==
    /\ current_user = 0
    /\ requests # <<>>
    /\ messages # <<>>
    /\ resp = Respond(302, "login", "Please log in to access this page.")

\* C10: complete by an authenticated caller who is neither the mentor nor the
\* mentee of the request fails with the authorization error and leaves the
\* status unchanged; by the mentor or the mentee it succeeds and the status
\* becomes completed.
C10_CompleteByParticipantsOnly ==
    [][\A r \in DOMAIN requests :
         (current_user # 0 /\ complete_request(r)) =>
            IF current_user \in {requests[r].mentor_id, requests[r].mentee_id}
            THEN /\ requests'[r].status = "completed"
                 /\ resp'.flash = "Mentorship marked as completed."
            ELSE /\ requests' = requests
                 /\ resp'.flash = "You cannot complete an unrelated request."]_vars

\* the mentee has just completed the request
C10_Witness ==
    /\ Len(requests) = 1
    /\ current_user = requests[1].mentee_id
    /\ requests[1].status = "completed"
    /\ resp.flash = "Mentorship marked as completed."

\* C11: the message log is append-only: every step keeps each stored message
\* with its sender, request, body and creation time, and adds at most one
\* message, at the end.
C11_MessageLogAppendOnly ==
    [][/\ Len(messages') \in {Len(messages), Len(messages) + 1}
       /\ \A m \in DOMAIN messages :
            /\ messages'[m].sender_id = messages[m].sender_id
            /\ messages'[m].mentorship_id = messages[m].mentorship_id
            /\ messages'[m].body = messages[m].body
            /\ messages'[m].created_at = messages[m].created_at]_vars

\* the mentee and the mentor have each posted to the request
C11_Witness ==
    /\ Len(messages) = 2
    /\ messages[1].sender_id # messages[2].sender_id
    /\ messages[1].mentorship_id = messages[2].mentorship_id
    /\ resp.flash = "Message sent."

\* C12: users are never deleted and a user's role, email and password hash
\* never change; a profile edit changes at most the caller's own name, bio,
\* skills and availability and leaves the other users, the requests and the
\* messages as they were; a step of any other handler leaves every stored
\* user row as it was.
C12_UserIdentityFixed ==
    [][/\ \A u \in DOMAIN users :
            /\ u \in DOMAIN users'
            /\ users'[u].role = users[u].role
            /\ users'[u].email = users[u].email
            /\ users'[u].password_hash = users[u].password_hash
       /\ \A form \in ProfileForms :
            (current_user # 0 /\ edit_profile_POST(form)) =>
               /\ DOMAIN users' = DOMAIN users
               /\ \A u \in DOMAIN users \ {current_user} : users'[u] = users[u]
               /\ requests' = requests
               /\ messages' = messages
       /\ (~ \E form \in ProfileForms : edit_profile_POST(form)) =>
               \A u \in DOMAIN users : users'[u] = users[u]]_vars

\* one user has edited the profile, another has not, and a request and a
\* message are stored
C12_Witness ==
    /\ resp.flash = "Profile updated."
    /\ current_user # 0
    /\ users[current_user].bio # <<>>
    /\ \E u \in DOMAIN users : users[u].bio = <<>>
    /\ requests # <<>>
    /\ messages # <<>>

\* s lists exactly the requests whose mentor or mentee is u, each once, a row
\* with a later creation time before a row with an earlier one
ListedFor(s, u) ==
    /\ DOMAIN s = 1..Len(s)
    /\ {s[i] : i \in DOMAIN s} =
          {r \in DOMAIN requests : u = requests[r].mentor_id \/ u = requests[r].mentee_id}
    /\ \A i, j \in DOMAIN s : i # j => s[i] # s[j]
    /\ \A i, j \in DOMAIN s :
          i < j => requests[s[i]].created_at >= requests[s[j]].created_at

\* C13: the request list that the dashboard and the mentorships page show to
\* a user holds exactly the requests whose mentor or mentee is that user,
\* each once, ordered by creation time descending.
C13_RequestListNewestFirst ==
    (current_user # 0 /\ resp.target \in {"dashboard.html", "mentorships.html"}) =>
        ListedFor(resp.requests, current_user)

\* a page lists two requests of different creation times while a third user
\* is registered
C13_Witness ==
    /\ current_user # 0
    /\ resp.target \in {"dashboard.html", "mentorships.html"}
    /\ Len(users) = 3
    /\ Len(resp.requests) = 2
    /\ requests[resp.requests[1]].created_at > requests[resp.requests[2]].created_at

\* the second mentor's page lists one of the two stored requests
C13_WitnessOther ==
    /\ current_user = 3
    /\ resp.target = "dashboard.html"
    /\ Len(requests) = 2
    /\ Len(resp.requests) = 1

\* the message rows of request r, in table order
MessageRows(table, r) == SelectSeq(table, LAMBDA message : message.mentorship_id = r)

Committed(w) ==
    /\ inflight[w].pc = "done"
    /\ inflight[w].handler \in StatusHandlers
    /\ inflight[w].commit_no > 0

\* both workers have committed a status handler on the same request
BothCommitted ==
    /\ \A w \in Workers : Committed(w)
    /\ inflight[1].request_id = inflight[2].request_id

\* the worker that committed last, and the other one
LastCommitter == CHOOSE w \in Workers : inflight[w].commit_no = Cardinality(Workers)

FirstCommitter == CHOOSE w \in Workers : w # LastCommitter

\* the status in every state is one of the four, and a handler whose caller
\* passes the handler's test of the row ends with the success notice
RaceSucceeds ==
    /\ \A r \in DOMAIN requests : requests[r].status \in RequestStatuses
    /\ \A w \in Workers :
          (/\ inflight[w].pc = "done"
           /\ inflight[w].handler \in StatusHandlers
           /\ IF inflight[w].handler = "complete"
              THEN inflight[w].user \in {requests[inflight[w].request_id].mentor_id,
                                         requests[inflight[w].request_id].mentee_id}
              ELSE inflight[w].user = requests[inflight[w].request_id].mentor_id) =>
             inflight[w].resp.flash = success_notice(inflight[w].handler)

\* C15 as stated: when two status handlers on the same request interleave,
\* both authorised handlers succeed, the status is one of the four in every
\* state, and the final status is the value set by the handler that commits
\* last.
C15_LastCommitWins ==
    /\ RaceSucceeds
    /\ BothCommitted =>
          requests[inflight[LastCommitter].request_id].status =
             status_of(inflight[LastCommitter].handler)

\* what the handlers do instead: the final status is the value set by the
\* handler that commits last unless the row it loaded already had that
\* status; its commit then writes nothing and the final status is the other
\* handler's, while it still reports success.
LastChangeWins ==
    /\ RaceSucceeds
    /\ BothCommitted =>
          requests[inflight[LastCommitter].request_id].status =
             IF status_of(inflight[LastCommitter].handler) #
                   inflight[LastCommitter].loaded.status
             THEN status_of(inflight[LastCommitter].handler)
             ELSE status_of(inflight[FirstCommitter].handler)

\* the mentor's accept of an accepted request committed after the mentee's
\* complete, and the request is completed
StaleCommitReached ==
    /\ BothCommitted
    /\ inflight[LastCommitter].handler = "accept"
    /\ inflight[LastCommitter].loaded.status = "accepted"
    /\ inflight[FirstCommitter].handler = "complete"
    /\ inflight[FirstCommitter].user = 2
    /\ requests[1].status = "completed"

\* the email a worker's registration asks for, trimmed and lowercased
AskedEmail(w) == lower(strip(form_get(inflight[w].form, "email", <<>>)))

\* worker w has added a user row
Registered(w) ==
    /\ inflight[w].pc = "done"
    /\ inflight[w].handler = "register"
    /\ inflight[w].resp.flash = "Welcome to the mentorship community!"

\* C16: no two user rows have the same email in any state, also when two
\* registrations of the same normalized email both pass the existence check
\* before either commits; of two such registrations at most one adds a row.
C16_EmailsUnique ==
    /\ \A u, v \in DOMAIN users : users[u].email = users[v].email => u = v
    /\ \A w, x \in Workers :
          (w # x /\ Registered(w) /\ Registered(x)) => AskedEmail(w) # AskedEmail(x)

\* two registrations of the same email have both passed the existence check;
\* one has added its row and the other has been refused by the database
C16_Witness ==
    /\ \A w \in Workers : inflight[w].pc = "done" /\ inflight[w].handler = "register"
    /\ AskedEmail(1) = AskedEmail(2)
    /\ inflight[1].form # inflight[2].form
    /\ \E w \in Workers : Registered(w)
    /\ \E w \in Workers : inflight[w].resp.code = 500
    /\ Len(users) = 3

\* C17: accept and decline by the request's mentor succeed whatever the
\* current status (pending, accepted, declined or completed): accept sets
\* accepted and decline sets declined.
C17_MentorDecidesFromAnyStatus ==
    [][\A r \in DOMAIN requests :
         (current_user # 0 /\ current_user = requests[r].mentor_id) =>
            /\ accept_request(r) =>
                 /\ requests'[r].status = "accepted"
                 /\ resp'.flash = "Mentorship accepted. Start collaborating!"
            /\ decline_request(r) =>
                 /\ requests'[r].status = "declined"
                 /\ resp'.flash = "Request declined."]_vars

\* the mentor has just accepted the request
C17_Witness ==
    /\ Len(requests) = 1
    /\ current_user = requests[1].mentor_id
    /\ requests[1].status = "accepted"
    /\ resp.flash = "Mentorship accepted. Start collaborating!"

\* the text has a character that is not whitespace
NonBlank(s) == \E i \in DOMAIN s : s[i] # Space

TablesUnchanged == UNCHANGED <<users, requests, messages>>

\* every stored goal and every stored body is non-empty after trimming
StoredTextNonBlank ==
    /\ \A r \in DOMAIN requests : NonBlank(requests[r].goal)
    /\ \A m \in DOMAIN messages : NonBlank(messages[m].body)

\* a create with a blank goal fails with the validation error and leaves the
\* store as it was
BlankGoalRefused ==
    \A form \in MentorshipForms :
       (/\ current_user # 0
        /\ ~NonBlank(form_get(form, "goal", <<>>))
        /\ mentorships_POST(form)) =>
           /\ resp'.flash = "Please select a mentor and describe your goal."
           /\ TablesUnchanged

\* C18 as stated: every stored goal and body is non-empty after trimming; a
\* create with a blank goal and a post with a blank body fail with a
\* validation error and leave the store unchanged.
C18_BlankInputIsValidationError ==
    /\ []StoredTextNonBlank
    /\ [][/\ BlankGoalRefused
          /\ \A r \in DOMAIN requests, form \in MessageForms :
               (/\ current_user # 0
                /\ ~NonBlank(form_get(form, "body", <<>>))
                /\ mentorship_messages_POST(r, form)) =>
                   /\ resp'.flash = "Message cannot be empty."
                   /\ TablesUnchanged]_vars

\* C18 amended: every stored goal and body is non-empty after trimming; a
\* create with a blank goal fails with the validation error; a post with a
\* blank body fails with the validation error when the caller is the mentor
\* or the mentee of the request and with the authorization error when not;
\* all of them leave the store unchanged.
C18_BlankInputIsRefused ==
    /\ []StoredTextNonBlank
    /\ [][/\ BlankGoalRefused
          /\ \A r \in DOMAIN requests, form \in MessageForms :
               (/\ current_user # 0
                /\ ~NonBlank(form_get(form, "body", <<>>))
                /\ mentorship_messages_POST(r, form)) =>
                   /\ resp'.flash =
                        IF current_user \in {requests[r].mentor_id, requests[r].mentee_id}
                        THEN "Message cannot be empty."
                        ELSE "You are not part of this mentorship."
                   /\ TablesUnchanged]_vars

\* a participant's blank post has just been refused, with a request and a
\* message stored
C18_Witness ==
    /\ resp.flash = "Message cannot be empty."
    /\ requests # <<>>
    /\ messages # <<>>
    /\ StoredTextNonBlank

\* C19: in every state the mentor of every stored request is a stored user
\* whose role is mentor, its mentee is a stored user whose role is mentee, and
\* the two differ; profile edits, logins and status changes do not end this.
C19_RequestLinksMentorAndMentee ==
    \A r \in DOMAIN requests :
        /\ requests[r].mentor_id \in DOMAIN users
        /\ users[requests[r].mentor_id].role = "mentor"
        /\ requests[r].mentee_id \in DOMAIN users
        /\ users[requests[r].mentee_id].role = "mentee"
        /\ requests[r].mentor_id # requests[r].mentee_id

\* the mentor and the mentee of a request that is no longer pending have
\* edited their profiles, and the mentor has signed in again
C19_Witness ==
    /\ Len(requests) = 1
    /\ requests[1].status = "completed"
    /\ users[requests[1].mentor_id].bio # <<>>
    /\ users[requests[1].mentee_id].bio # <<>>
    /\ current_user = requests[1].mentor_id
    /\ resp.flash = "Successfully signed in."

\* C20: accept, decline and complete on request r change at most r's status
\* (r's other columns, the other requests, the users and the messages stay);
\* a post on r changes at most r's message log (the requests, the users and
\* the messages of other requests stay); no step removes a request.
C20_HandlersTouchOnlyTheirRequest ==
    [][/\ \A r \in DOMAIN requests :
            (/\ current_user # 0
             /\ accept_request(r) \/ decline_request(r) \/ complete_request(r)) =>
                /\ users' = users
                /\ messages' = messages
                /\ DOMAIN requests' = DOMAIN requests
                /\ \A q \in DOMAIN requests \ {r} : requests'[q] = requests[q]
                /\ requests'[r] = [requests[r] EXCEPT !.status = requests'[r].status]
       /\ \A r \in DOMAIN requests, form \in MessageForms :
            (current_user # 0 /\ mentorship_messages_POST(r, form)) =>
                /\ users' = users
                /\ requests' = requests
                /\ \A m \in DOMAIN messages : messages'[m] = messages[m]
                /\ \A m \in DOMAIN messages' \ DOMAIN messages :
                      messages'[m].mentorship_id = r
       /\ \A r \in DOMAIN requests : r \in DOMAIN requests']_vars

\* one of two requests has just been completed, the other is still pending,
\* and each has a message
C20_Witness ==
    /\ Len(requests) = 2
    /\ requests[1].status = "pending"
    /\ requests[2].status = "completed"
    /\ resp.flash = "Mentorship marked as completed."
    /\ Len(messages) = 2
    /\ messages[1].mentorship_id # messages[2].mentorship_id

====
